---- MODULE Spec2Model ----
(***************************************************************************)
(* A model of instacomments.py: main() and the functions it calls.         *)
(*                                                                         *)
(* Python values are encoded as follows.                                   *)
(*   - An optional value (None or a value) is a sequence of length <= 1:   *)
(*     None is <<>>, the value v is <<v>>.                                 *)
(*   - A Python str that the code inspects (a username) is a sequence of   *)
(*     code points; a cursor is a TLA+ string, "" being the empty str.     *)
(*   - A JSON container the code reads is described by its kind: "absent"  *)
(*     (the key is missing), "null" (JSON null), "obj"/"list" (present),   *)
(*     and for shortcode_media also "empty" (the object {}).               *)
(* The progress bar, the HTTP headers and the per_page value sent as       *)
(* `first` do not influence the control flow and are left out; the server  *)
(* is free to answer any page whatever `first` was.                        *)
(***************************************************************************)
EXTENDS Integers, Sequences, FiniteSets, TLC

VARIABLES
    pc,                \* position of main()
    args,              \* the parsed command line (argparse namespace)
    results,           \* fetch_parent_comments: results
    has_next,          \* fetch_parent_comments: has_next
    cursor,            \* fetch_parent_comments: cursor
    idx,               \* position of the for loop in the current page's edges
    pages,             \* history: every response received, in order
    requests,          \* history: the `after` variable of every request sent
    comments,          \* main: comments
    usernames_payload, \* main: usernames_payload
    written,           \* what write_output was given, once it has written
    exit_status,       \* the process's exit status, once it has ended
    fatal              \* why the process ended ("none" while it has not failed)

vars == <<pc, args, results, has_next, cursor, idx, pages, requests, comments,
          usernames_payload, written, exit_status, fatal>>

\* ----------------------------------------------------------------- bounds
MaxRequests == 2
MaxNodes == 2
MaxCap == 2
MaxComments == 3

\* ------------------------------------------------------------ Python values
None == <<>>
Some(v) == <<v>>
IsNone(o) == o = <<>>
Val(o) == o[1]

SeqUpTo(S, n) == UNION {[1..k -> S] : k \in 0..n}

\* ----------------------------------------------------------- exit statuses
EXIT_OK == 0
EXIT_RUNTIME == 1
EXIT_USAGE == 2
EXIT_IO == 1
EXIT_UNCAUGHT == 1

FatalConditions == {"invalid_url", "missing_env", "http_status", "non_json", "io"}

FailureClass(c) ==
    CASE c \in {"invalid_url", "missing_env"} -> "input"
      [] c \in {"http_status", "non_json"} -> "runtime"
      [] c = "io" -> "io"
      [] OTHER -> "uncaught"

ExitCodeOf(c) ==
    CASE c = "invalid_url" -> EXIT_USAGE
      [] c = "missing_env" -> EXIT_USAGE
      [] c = "http_status" -> EXIT_RUNTIME
      [] c = "non_json" -> EXIT_RUNTIME
      [] c = "io" -> EXIT_IO
      [] OTHER -> EXIT_UNCAUGHT

\* ------------------------------------------------------- response shapes
\* A reply node under edge_threaded_comments.edges[].node
ReplyNode(ownerKind, id, username, likes) ==
    [owner |-> ownerKind, id |-> id, username |-> username, text |-> Some("r"),
     like_count |-> likes, created_at |-> Some(1)]

\* An element of edge_media_to_parent_comment.edges
Edge(nodeKind, id, ownerKind, username, likes, threadedKind, replies) ==
    [node |-> nodeKind, id |-> id, owner |-> ownerKind, username |-> username,
     text |-> Some("t"), like_count |-> likes, created_at |-> Some(1),
     threaded |-> threadedKind, replies |-> replies]

UserA == <<97>>

RegularEdges ==
    { Edge("obj", Some(1), "obj", Some(UserA), None, "absent", <<>>),
      Edge("obj", Some(1), "obj", Some(UserA), Some(1), "absent", <<>>),
      Edge("obj", Some(2), "obj", Some(UserA), Some(0), "absent", <<>>),
      Edge("obj", Some(2), "obj", Some(UserA), Some(1), "absent", <<>>) }

\* Edges whose node departs from the expected shape
OddEdges ==
    { Edge("absent", None, "absent", None, None, "absent", <<>>),
      Edge("null", None, "absent", None, None, "absent", <<>>),
      Edge("obj", Some(2), "obj", Some(UserA), Some(1), "null", <<>>),
      Edge("obj", Some(2), "obj", Some(UserA), Some(1), "obj",
           <<ReplyNode("obj", Some(3), Some(UserA), Some(0))>>) }

Edges == RegularEdges \cup OddEdges

Cursors == {None, Some(""), Some("c1")}

HttpStatuses == {200, 429}

BaseResponse ==
    [status |-> 200, json |-> TRUE, data |-> "obj", media |-> "obj",
     edge_info |-> "obj", edges |-> "list", edgeList |-> <<>>,
     page_info |-> "obj", has_next_page |-> FALSE, end_cursor |-> None]

\* page_info of a page that announces a next page, with each cursor it may carry
Continued(r) == {[r EXCEPT !.has_next_page = TRUE, !.end_cursor = c] : c \in Cursors}

\* The responses the query service may give when at most n more nodes are served
Responses(n) ==
    {[BaseResponse EXCEPT !.status = s] : s \in HttpStatuses \ {200}}
    \cup {[BaseResponse EXCEPT !.json = FALSE]}
    \cup {[BaseResponse EXCEPT !.data = k] : k \in {"absent", "null"}}
    \cup {[BaseResponse EXCEPT !.media = k] : k \in {"absent", "null", "empty"}}
    \cup {[BaseResponse EXCEPT !.edge_info = k] : k \in {"absent", "null"}}
    \cup {[BaseResponse EXCEPT !.edges = "null"]}
    \cup {[BaseResponse EXCEPT !.edges = "absent"]}
    \cup Continued([BaseResponse EXCEPT !.edges = "absent"])
    \cup {[BaseResponse EXCEPT !.edgeList = e, !.page_info = k] :
            e \in SeqUpTo(Edges, n), k \in {"absent", "null"}}
    \cup {[BaseResponse EXCEPT !.edgeList = e] : e \in SeqUpTo(Edges, n)}
    \cup UNION {Continued([BaseResponse EXCEPT !.edgeList = e]) : e \in SeqUpTo(Edges, n)}

\* ------------------------------------------------------ parse_comment_node
\* What a call returns: exc is "none" and item the record, or exc names the
\* exception raised.
Raised(e) == [exc |-> e, item |-> None]
Returned(v) == [exc |-> "none", item |-> Some(v)]

ParseReply(r) ==
    [id |-> r.id,
     username |-> IF r.owner = "obj" THEN r.username ELSE None,
     text |-> r.text, like_count |-> r.like_count, created_at |-> r.created_at]

ParseNode(e, include_replies) ==
    LET present == e.node = "obj"
        item == [id |-> IF present THEN e.id ELSE None,
                 username |-> IF present /\ e.owner = "obj" THEN e.username ELSE None,
                 text |-> IF present THEN e.text ELSE None,
                 like_count |-> IF present THEN e.like_count ELSE None,
                 created_at |-> IF present THEN e.created_at ELSE None,
                 replies |-> None]
    IN  IF e.node = "null" THEN Raised("AttributeError")
        ELSE IF present /\ e.owner = "null" THEN Raised("AttributeError")
        ELSE IF ~include_replies THEN Returned(item)
        ELSE IF present /\ e.threaded = "null" THEN Raised("AttributeError")
        ELSE IF ~present \/ e.threaded = "absent"
             THEN Returned([item EXCEPT !.replies = Some(<<>>)])
        ELSE IF \E i \in 1..Len(e.replies) : e.replies[i].owner = "null"
             THEN Raised("AttributeError")
        ELSE Returned([item EXCEPT !.replies =
                 Some([i \in 1..Len(e.replies) |-> ParseReply(e.replies[i])])])

\* --------------------------------------------------- fetch_parent_comments
\* Python truthiness of max_comments (None and 0 are falsy)
Truthy(max_comments) == max_comments # None /\ Val(max_comments) # 0

\* A cap tested with > in place of >=
CapReachedStrict(max_comments, n) == Truthy(max_comments) /\ n > Val(max_comments)

\* max_comments and len(results) >= max_comments
CapReached(max_comments, n) == Truthy(max_comments) /\ n >= Val(max_comments)

\* item.get("like_count") or 0
LikeOrZero(item) == IF item.like_count = None THEN 0 ELSE Val(item.like_count)

\* A threshold tested with > in place of >=
QualifiesStrict(item, min_likes) == LikeOrZero(item) > min_likes

Qualifies(item, min_likes) == LikeOrZero(item) >= min_likes

\* if cursor: variables["after"] = cursor
AfterVariable(c) ==
    IF c # None /\ Val(c) # ""
    THEN [has_after |-> TRUE, after |-> c]
    ELSE [has_after |-> FALSE, after |-> None]

\* A status test that lets client errors through
HttpFailsServerOnly(r) == r.status >= 500

\* graphql_request: r.status_code != 200
HttpFails(r) == r.status # 200

\* graphql_request: r.json() raises ValueError
NotJson(r) == ~r.json

\* data.get("data", {}).get("shortcode_media"), as the kind of value obtained
MediaKind(r) == IF r.data = "absent" THEN "absent" ELSE r.media

\* A loop that does not test the container before indexing it
NotMediaNever(kind) == FALSE

\* not media
NotMedia(kind) == kind \in {"absent", "null", "empty"}

\* except KeyError
Caught(exc) == exc = "KeyError"

\* Lines 131-137, up to the for loop: "raise" with the exception, "break"
\* (leave the while loop) or "loop" (iterate over the edges)
PageHeadOutcome(r) ==
    IF r.data = "null" THEN [to |-> "raise", exc |-> "AttributeError"]
    ELSE IF NotMedia(MediaKind(r)) THEN [to |-> "break", exc |-> "none"]
    ELSE IF MediaKind(r) \in {"absent", "null"} THEN [to |-> "raise", exc |-> "TypeError"]
    ELSE IF MediaKind(r) = "empty" \/ r.edge_info = "absent"
         THEN [to |-> "raise", exc |-> "KeyError"]
    ELSE IF r.edge_info = "null" THEN [to |-> "raise", exc |-> "AttributeError"]
    ELSE IF r.edges = "null" THEN [to |-> "raise", exc |-> "TypeError"]
    ELSE [to |-> "loop", exc |-> "none"]

\* edge_info.get("edges", [])
EdgesOf(r) == IF r.edges = "list" THEN r.edgeList ELSE <<>>

CurrentPage == pages[Len(pages)]

RECURSIVE NodesServed(_)
NodesServed(ps) ==
    IF ps = <<>> THEN 0 ELSE Len(Head(ps).edgeList) + NodesServed(Tail(ps))

\* sys.exit(status), or the interpreter ending on an uncaught exception
Exit(status, why) ==
    /\ pc' = "exited"
    /\ exit_status' = Some(status)
    /\ fatal' = why

\* main, lines 344-347
CheckUrl ==
    /\ pc = "check_url"
    /\ \E valid \in BOOLEAN :
         IF valid
         THEN pc' = "validate_env" /\ UNCHANGED <<exit_status, fatal>>
         ELSE Exit(ExitCodeOf("invalid_url"), "invalid_url")
    /\ UNCHANGED <<args, results, has_next, cursor, idx, pages, requests, comments,
                   usernames_payload, written>>

\* validate_env, then lines 117-119 of fetch_parent_comments
ValidateEnv ==
    /\ pc = "validate_env"
    /\ \E missing \in BOOLEAN :
         IF missing
         THEN Exit(ExitCodeOf("missing_env"), "missing_env")
         ELSE pc' = "request" /\ UNCHANGED <<exit_status, fatal>>
    /\ UNCHANGED <<args, results, has_next, cursor, idx, pages, requests, comments,
                   usernames_payload, written>>

\* One turn of `while has_next` up to the return of graphql_request
Request ==
    /\ pc = "request"
    /\ Len(requests) < MaxRequests
    /\ \E r \in Responses(MaxNodes - NodesServed(pages)) :
         /\ requests' = Append(requests, AfterVariable(cursor))
         /\ pages' = Append(pages, r)
         /\ IF HttpFails(r) THEN Exit(ExitCodeOf("http_status"), "http_status")
            ELSE IF NotJson(r) THEN Exit(ExitCodeOf("non_json"), "non_json")
            ELSE pc' = "page_head" /\ UNCHANGED <<exit_status, fatal>>
    /\ UNCHANGED <<args, results, has_next, cursor, idx, comments,
                   usernames_payload, written>>

\* Lines 130-137 and the except clause
PageHead ==
    /\ pc = "page_head"
    /\ LET o == PageHeadOutcome(CurrentPage) IN
         CASE o.to = "break" \/ (o.to = "raise" /\ Caught(o.exc)) ->
                /\ pc' = "fetch_return"
                /\ UNCHANGED <<idx, exit_status, fatal>>
           [] o.to = "raise" /\ ~Caught(o.exc) ->
                /\ Exit(EXIT_UNCAUGHT, o.exc)
                /\ UNCHANGED idx
           [] OTHER ->
                /\ idx' = 0
                /\ pc' = IF EdgesOf(CurrentPage) = <<>> THEN "page_info" ELSE "for_edge"
                /\ UNCHANGED <<exit_status, fatal>>
    /\ UNCHANGED <<args, results, has_next, cursor, pages, requests, comments,
                   usernames_payload, written>>

\* One iteration of `for edge in edges`, lines 138-146
ForEdge ==
    /\ pc = "for_edge"
    /\ LET edges == EdgesOf(CurrentPage)
           parsed == ParseNode(edges[idx + 1], args.include_replies)
           item == Val(parsed.item)
           appended == IF Qualifies(item, args.min_likes)
                       THEN Append(results, item) ELSE results
       IN  IF parsed.exc # "none"
           THEN IF Caught(parsed.exc)
                THEN /\ pc' = "fetch_return"
                     /\ UNCHANGED <<results, has_next, idx, exit_status, fatal>>
                ELSE /\ Exit(EXIT_UNCAUGHT, parsed.exc)
                     /\ UNCHANGED <<results, has_next, idx>>
           ELSE /\ results' = appended
                /\ idx' = idx + 1
                /\ UNCHANGED <<exit_status, fatal>>
                /\ IF CapReached(args.max_comments, Len(appended))
                   THEN has_next' = FALSE /\ pc' = "page_info"
                   ELSE /\ UNCHANGED has_next
                        /\ pc' = IF idx + 1 = Len(edges) THEN "page_info" ELSE "for_edge"
    /\ UNCHANGED <<args, cursor, pages, requests, comments, usernames_payload, written>>

\* Lines 151-153 and the test of `while has_next`
PageInfo ==
    /\ pc = "page_info"
    /\ LET r == CurrentPage IN
         IF r.page_info = "null"
         THEN /\ Exit(EXIT_UNCAUGHT, "AttributeError")
              /\ UNCHANGED <<has_next, cursor>>
         ELSE LET more == r.page_info = "obj" /\ r.has_next_page
                          /\ ~CapReached(args.max_comments, Len(results))
              IN  /\ has_next' = more
                  /\ cursor' = IF r.page_info = "obj" THEN r.end_cursor ELSE None
                  /\ pc' = IF more THEN "request" ELSE "fetch_return"
                  /\ UNCHANGED <<exit_status, fatal>>
    /\ UNCHANGED <<args, results, idx, pages, requests, comments,
                   usernames_payload, written>>

\* ------------------------------------------------- dedupe and the usernames
\* Python truthiness of c.get("username") (None and "" are falsy)
TruthyStr(u) == u # None /\ Val(u) # <<>>

RECURSIVE DedupeFrom(_, _, _, _)
DedupeFrom(items, key, seen, out) ==
    IF items = <<>> THEN out
    ELSE LET k == Head(items)[key] IN
         IF k = None \/ k \in seen
         THEN DedupeFrom(Tail(items), key, seen, out)
         ELSE DedupeFrom(Tail(items), key, seen \cup {k}, Append(out, Head(items)))

\* A dedupe that never records what it has seen
DedupeByKeyNoSeen(items, key) == SelectSeq(items, LAMBDA it : it[key] # None)

DedupeByKey(items, key) == DedupeFrom(items, key, {}, <<>>)

RECURSIVE UsernamesFrom(_, _, _)
UsernamesFrom(cs, seen, out) ==
    IF cs = <<>> THEN out
    ELSE LET u == Head(cs).username IN
         IF TruthyStr(u) /\ Val(u) \notin seen
         THEN UsernamesFrom(Tail(cs), seen \cup {Val(u)}, Append(out, Val(u)))
         ELSE UsernamesFrom(Tail(cs), seen, out)

to_usernames(cs) == UsernamesFrom(cs, {}, <<>>)

RECURSIVE usernames_with_duplicates(_)
usernames_with_duplicates(cs) ==
    IF cs = <<>> THEN <<>>
    ELSE LET u == Head(cs).username
             rest == usernames_with_duplicates(Tail(cs))
         IN  IF TruthyStr(u) THEN <<Val(u)>> \o rest ELSE rest

\* str.lower() on ASCII code points
LowerChar(c) == IF c \in 65..90 THEN c + 32 ELSE c
Lower(s) == [i \in 1..Len(s) |-> LowerChar(s[i])]

\* Python's str comparison a < b: lexicographic by code point
RECURSIVE StrLess(_, _)
StrLess(a, b) ==
    IF b = <<>> THEN FALSE
    ELSE IF a = <<>> THEN TRUE
    ELSE IF Head(a) # Head(b) THEN Head(a) < Head(b)
    ELSE StrLess(Tail(a), Tail(b))

\* A sort key that forgets to fold the case
SortKeyRaw(s) == s

\* key=lambda s: s.lower()
SortKey(s) == Lower(s)

\* list.sort(key=...) is stable: x goes after every element whose key is not greater
RECURSIVE InsertByKey(_, _)
InsertByKey(sorted, x) ==
    IF sorted = <<>> THEN <<x>>
    ELSE IF StrLess(SortKey(x), SortKey(Head(sorted))) THEN <<x>> \o sorted
    ELSE <<Head(sorted)>> \o InsertByKey(Tail(sorted), x)

RECURSIVE SortFrom(_, _)
SortFrom(s, acc) ==
    IF s = <<>> THEN acc ELSE SortFrom(Tail(s), InsertByKey(acc, Head(s)))

SortByKey(s) == SortFrom(s, <<>>)

\* ------------------------------------------------------------ rest of main
\* fetch_parent_comments returns; lines 357-371
Dedupe ==
    /\ pc = "fetch_return"
    /\ comments' = IF args.data_format = "detailed" /\ args.dedupe
                   THEN DedupeByKey(results, "id") ELSE results
    /\ pc' = "usernames"
    /\ UNCHANGED <<args, results, has_next, cursor, idx, pages, requests,
                   usernames_payload, written, exit_status, fatal>>

\* Lines 374-381
Usernames ==
    /\ pc = "usernames"
    /\ usernames_payload' =
         IF args.data_format = "usernames"
         THEN Some(SortByKey(IF args.dedupe THEN to_usernames(comments)
                             ELSE usernames_with_duplicates(comments)))
         ELSE None
    /\ pc' = "write"
    /\ UNCHANGED <<args, results, has_next, cursor, idx, pages, requests, comments,
                   written, exit_status, fatal>>

\* write_output's payload for the data format
Payload(data_format, cs, us) ==
    IF data_format = "usernames"
    THEN [usernames |-> IF us # None THEN Val(us) ELSE to_usernames(cs), comments |-> <<>>]
    ELSE [usernames |-> <<>>, comments |-> cs]

\* Lines 383-398: write_output, which either writes or raises OSError
WriteOutput ==
    /\ pc = "write"
    /\ \E os_error \in BOOLEAN :
         IF os_error
         THEN Exit(ExitCodeOf("io"), "io") /\ UNCHANGED written
         ELSE /\ written' = Some(Payload(args.data_format, comments, usernames_payload))
              /\ Exit(EXIT_OK, "none")
    /\ UNCHANGED <<args, results, has_next, cursor, idx, pages, requests, comments,
                   usernames_payload>>

\* ---------------------------------------------------------- specifications
MaxCommentsArgs == {None} \cup {Some(n) : n \in (-1)..MaxCap}

Args ==
    [max_comments : MaxCommentsArgs, min_likes : {0, 1}, include_replies : BOOLEAN,
     data_format : {"usernames", "detailed"}, dedupe : BOOLEAN]

Init ==
    /\ pc = "check_url"
    /\ args \in Args
    /\ results = <<>>
    /\ has_next = TRUE
    /\ cursor = None
    /\ idx = 0
    /\ pages = <<>>
    /\ requests = <<>>
    /\ comments = <<>>
    /\ usernames_payload = None
    /\ written = None
    /\ exit_status = None
    /\ fatal = "none"

Next ==
    \/ CheckUrl
    \/ ValidateEnv
    \/ Request
    \/ PageHead
    \/ ForEdge
    \/ PageInfo
    \/ Dedupe
    \/ Usernames
    \/ WriteOutput

Spec == Init /\ [][Next]_vars

\* The stage after the fetch, started from any collected sequence
UserEmpty == <<>>
UserUpperA == <<65>>
UserUpperB == <<66>>
UserAb == <<97, 98>>

PostUsernames == {UserEmpty, UserA, UserUpperA, UserUpperB, UserAb}

PostRecords ==
    {[id |-> i, username |-> u, text |-> Some("t"), like_count |-> Some(0),
      created_at |-> Some(1), replies |-> None] :
        i \in {None, Some(1), Some(2)}, u \in {None} \cup {Some(n) : n \in PostUsernames}}

InitPost ==
    /\ pc = "fetch_return"
    /\ args \in [max_comments : {None}, min_likes : {0}, include_replies : {FALSE},
                 data_format : {"usernames", "detailed"}, dedupe : BOOLEAN]
    /\ results \in SeqUpTo(PostRecords, MaxComments)
    /\ has_next = FALSE
    /\ cursor = None
    /\ idx = 0
    /\ pages = <<>>
    /\ requests = <<>>
    /\ comments = <<>>
    /\ usernames_payload = None
    /\ written = None
    /\ exit_status = None
    /\ fatal = "none"

NextPost ==
    \/ Dedupe
    \/ Usernames
    \/ WriteOutput

SpecPost == InitPost /\ [][NextPost]_vars

\* ------------------------------------------------------------ vocabulary
\* fetch_parent_comments has returned to main
FetchHasReturned ==
    \/ pc \in {"fetch_return", "usernames", "write"}
    \/ pc = "exited" /\ fatal \in {"none", "io"}

\* The records of a page's edges es, none of which makes the extraction fail
ItemsOf(es) == [i \in 1..Len(es) |-> Val(ParseNode(es[i], args.include_replies).item)]

RECURSIVE AllItems(_)
AllItems(ps) ==
    IF ps = <<>> THEN <<>> ELSE ItemsOf(EdgesOf(Head(ps))) \o AllItems(Tail(ps))

\* The like count of a record, an unknown one counting as zero, reaches the threshold
MeetsThreshold(item) ==
    (IF item.like_count = None THEN 0 ELSE item.like_count[1]) >= args.min_likes

\* The page announces a further page
AnnouncesNext(r) == r.page_info = "obj" /\ r.has_next_page

\* The page was delivered and is read without any failure
NoFailure(r) ==
    /\ r.status = 200 /\ r.json
    /\ r.data = "obj" /\ r.media = "obj" /\ r.edge_info = "obj"
    /\ r.edges \in {"list", "absent"}
    /\ r.page_info \in {"obj", "absent"}
    /\ \A i \in 1..Len(r.edgeList) :
         ParseNode(r.edgeList[i], args.include_replies).exc = "none"

\* The elements of s at the positions in I, in order
RECURSIVE PickFrom(_, _, _)
PickFrom(s, I, i) ==
    IF i > Len(s) THEN <<>>
    ELSE (IF i \in I THEN <<s[i]>> ELSE <<>>) \o PickFrom(s, I, i + 1)

Pick(s, I) == PickFrom(s, I, 1)

Count(s, x) == Cardinality({i \in 1..Len(s) : s[i] = x})

\* ------------------------------------------------------------------ claims

\* C1: whenever max_comments is an integer (not None), results never holds
\* more than max_comments records, in every state of the loop and on return.
C1_NeverExceedsMax ==
    args.max_comments # None => Len(results) <= Val(args.max_comments)

\* C2: with max_comments = N >= 1, once the N-th qualifying record has been
\* appended the loop processes no further node and sends no further request,
\* results holds exactly N records, the N-th being the record of the last node
\* processed, and results is exactly the qualifying records among the nodes
\* processed up to there (nodes below the threshold do not count toward N).
C2_CapStopsAtNth ==
    (args.max_comments # None /\ Val(args.max_comments) >= 1
       /\ Len(results) >= Val(args.max_comments)) =>
        /\ Len(results) = Val(args.max_comments)
        /\ pc \notin {"request", "page_head", "for_edge"}
        /\ Len(requests) = Len(pages)
        /\ idx >= 1
        /\ LET processed == AllItems(SubSeq(pages, 1, Len(pages) - 1))
                            \o ItemsOf(SubSeq(EdgesOf(CurrentPage), 1, idx))
           IN  /\ results = SelectSeq(processed, MeetsThreshold)
               /\ results[Len(results)] = processed[Len(processed)]

C2_Witness ==
    /\ pc = "fetch_return"
    /\ args.max_comments = Some(1)
    /\ args.min_likes = 1
    /\ Len(results) = 1
    /\ idx = 1
    /\ Len(EdgesOf(CurrentPage)) = 2
    /\ AnnouncesNext(CurrentPage)
    /\ Len(requests) = 1

\* C3: with no maximum and no failure, pages are requested exactly until the
\* first page that announces no next page, and the sequence returned is the
\* records of all those pages whose like count (unknown counting as zero) is
\* at least min_likes, in page order and then in-page order.
C3_AllQualifyingInOrder ==
    (args.max_comments = None /\ \A i \in 1..Len(pages) : NoFailure(pages[i])) =>
        /\ pc = "request" => \A i \in 1..Len(pages) : AnnouncesNext(pages[i])
        /\ FetchHasReturned =>
             /\ Len(pages) >= 1
             /\ ~AnnouncesNext(pages[Len(pages)])
             /\ \A i \in 1..(Len(pages) - 1) : AnnouncesNext(pages[i])
             /\ results = SelectSeq(AllItems(pages), MeetsThreshold)

C3_Witness ==
    /\ pc = "fetch_return"
    /\ args.max_comments = None
    /\ args.min_likes = 1
    /\ Len(pages) = 2
    /\ \A i \in 1..Len(pages) : NoFailure(pages[i])
    /\ Len(EdgesOf(pages[1])) = 1 /\ Len(EdgesOf(pages[2])) = 1
    /\ Len(results) = 1
    /\ results[1].id = Some(2)
    /\ ~MeetsThreshold(ItemsOf(EdgesOf(pages[1]))[1])

\* The response was delivered but holds no shortcode_media container
ContainerMissing(r) ==
    /\ r.status = 200 /\ r.json
    /\ r.data = "absent" \/ (r.data = "obj" /\ r.media \in {"absent", "null", "empty"})

\* C4: a page without data.shortcode_media (absent, null or empty), first or
\* later, ends the loop without a fatal error: it is the last page requested,
\* fetch_parent_comments returns the records of the earlier pages unchanged,
\* and main goes on to the dedupe stage and the writer with them.
C4_MissingContainerEndsLoop ==
    \A i \in 1..Len(pages) :
        ContainerMissing(pages[i]) =>
            /\ i = Len(pages)
            /\ Len(requests) = Len(pages)
            /\ pc # "page_head" =>
                 /\ FetchHasReturned
                 /\ results = SelectSeq(AllItems(SubSeq(pages, 1, i - 1)), MeetsThreshold)
                 /\ (pc \in {"usernames", "write", "exited"}
                       /\ ~(args.data_format = "detailed" /\ args.dedupe))
                      => comments = results
                 /\ (pc = "exited" /\ fatal = "none") => written # None

C4_Witness ==
    /\ pc = "exited"
    /\ fatal = "none"
    /\ written # None
    /\ Len(pages) = 2
    /\ ContainerMissing(pages[2])
    /\ pages[2].media = "empty"
    /\ Len(results) = 2
    /\ args.data_format = "detailed"
    /\ Val(written).comments = results

\* C5: any structural error while reading a page ends the loop with partial
\* results: no exception escapes fetch_parent_comments.
C5_NoExceptionEscapes ==
    fatal \notin {"AttributeError", "TypeError"}

\* C6: a non-200 status or a non-JSON body on any page request ends the whole
\* run: the failing request is the last one (no retry, no further page), the
\* process has exited with a non-zero status, and nothing was written.
C6_TransportFailureIsFatal ==
    \A i \in 1..Len(pages) :
        (pages[i].status # 200 \/ ~pages[i].json) =>
            /\ i = Len(pages)
            /\ Len(requests) = Len(pages)
            /\ pc = "exited"
            /\ exit_status # None
            /\ Val(exit_status) # 0
            /\ written = None

C6_Witness ==
    /\ pc = "exited"
    /\ Len(pages) = 2
    /\ pages[2].status # 200
    /\ Len(results) >= 1
    /\ written = None
    /\ exit_status = Some(1)

\* C7: the exit status of a fatal condition identifies its failure class:
\* no fatal condition of another class (input/config, runtime/network, I/O)
\* exits with the same status.
C7_StatusIdentifiesClass ==
    (pc = "exited" /\ fatal \in FatalConditions) =>
        \A c \in FatalConditions :
            FailureClass(c) # FailureClass(fatal) => ExitCodeOf(c) # Val(exit_status)

\* The positions of s whose id no earlier position carries
FirstOfId(s) == {i \in 1..Len(s) : \A j \in 1..(i - 1) : s[j].id # s[i].id}

\* main has passed the dedupe stage
PastDedupe ==
    \/ pc \in {"usernames", "write"}
    \/ pc = "exited" /\ fatal \in {"none", "io"}

CollectedNames ==
    LET named == SelectSeq(results, LAMBDA c : c.username # None /\ c.username[1] # <<>>)
    IN  [i \in 1..Len(named) |-> named[i].username[1]]

\* C9: in usernames mode the list given to the writer is in case-insensitive
\* ascending order, with dedupe (each case-sensitively distinct username
\* once) and without (every repeat kept).
C9_UsernamesSortedCaseInsensitive ==
    (args.data_format = "usernames" /\ (pc = "write" \/ (pc = "exited" /\ fatal \in {"none", "io"}))) =>
        LET us == Val(usernames_payload) IN
        /\ \A i \in 1..(Len(us) - 1) : ~StrLess(Lower(us[i + 1]), Lower(us[i]))
        /\ args.dedupe =>
             /\ \A i, j \in 1..Len(us) : us[i] = us[j] => i = j
             /\ {us[i] : i \in 1..Len(us)} = {CollectedNames[i] : i \in 1..Len(CollectedNames)}
        /\ ~args.dedupe => \A u \in PostUsernames : Count(us, u) = Count(CollectedNames, u)
        /\ written # None => Val(written).usernames = us

C9_Witness ==
    /\ pc = "exited"
    /\ written # None
    /\ args.data_format = "usernames"
    /\ ~args.dedupe
    /\ CollectedNames = <<UserUpperB, UserA, UserUpperB>>
    /\ Val(written).usernames = <<UserA, UserUpperB, UserUpperB>>

\* C10: the first request carries no cursor, and every later request carries
\* as `after` exactly the end_cursor of the page before it, whatever that
\* value is (a string or null); no request after the first is cursor-less.
C10_NextRequestCarriesEndCursor ==
    /\ Len(requests) >= 1 => ~requests[1].has_after
    /\ \A i \in 2..Len(requests) :
         /\ requests[i].has_after
         /\ requests[i].after = pages[i - 1].end_cursor

====
